---- MODULE Spec2Model ----
(***************************************************************************)
(* A model of the request-dispatch layer of goteam: the bearer token       *)
(* reader (auth.BearerTokenReader), the generic API handler                *)
(* (api.Handler.ServeHTTP) and the column route handler                    *)
(* (column.Handler.ServeHTTP).                                             *)
(*                                                                         *)
(* Go strings are sequences of one-character strings; "" is <<>>.          *)
(***************************************************************************)
EXTENDS Integers, Sequences, FiniteSets, TLC

VARIABLES
    \* ---- auth.BearerTokenReader.Read, called on its own ----
    authHeader,      \* the argument of Read
    readState,       \* "pending" | "returned" | "panicked"
    readOut,         \* the string Read returned
    \* ---- api.Handler.ServeHTTP, one request at a time ----
    methodHandlers,  \* h.methodHandlers: the set of keys of the route table
    authTokenValidator, \* h.authTokenValidator: "jwt", or "nil" for none
    pc,              \* position of ServeHTTP in the request
    rMethod,         \* r.Method
    rAuth,           \* r.Header.Get("Authorization")
    unvisited,       \* keys the range loop has not produced yet
    allowedMethods,  \* the local slice allowedMethods
    method,          \* the key the range loop matched, "" before
    authToken,       \* the local authToken
    sub,             \* the local sub
    wHeader,         \* response headers set so far
    wStatus,         \* the status codes written, in order, with their writer
    wBody,           \* who wrote to the response body, in order
    handled,         \* the calls of MethodHandler.Handle: <<key, sub>>
    calls,           \* the collaborators called for this request, in order
    \* ---- column.Handler.ServeHTTP, one request at a time ----
    colPc,           \* position of ServeHTTP in the request
    colMethod,       \* r.Method
    colAuth,         \* r.Header.Get("Authorization")
    colQueryID,      \* r.URL.Query().Get("id")
    colSub,          \* the local sub
    column,          \* the local column
    colHeader,       \* response headers set so far
    colStatus,       \* the status codes given to w.WriteHeader, in order
    colCalls,        \* the collaborators called, in order, with arguments
    \* ---- what the clients of one api.Handler have seen ----
    prevResp,        \* the response to the request served before this one
    \* ---- api.Handler.ServeHTTP, one goroutine per request in flight ----
    inflight,        \* goroutine -> the request it serves and its locals
    slices,          \* slice -> the contents of that allowedMethods slice
    \* ---- register.Handler.ServeHTTP, one goroutine per request ----
    regInflight,     \* goroutine -> the request it serves and its locals
    \* ---- register.Handler.ServeHTTP, one request at a time ----
    regPc,           \* position of ServeHTTP in the request
    regMethod,       \* r.Method
    regReqBody,      \* r.Body: Garbage, or the ReqBody it decodes to
    regHeader,       \* response headers set so far, cookies apart
    regStatus,       \* the status codes written, in order
    regCookies,      \* the cookies given to http.SetCookie, in order
    regResBody,      \* the messages written to the response body, in order
    regCalls,        \* the collaborators called, in order, with arguments
    users,           \* the usernames in the user table
    \* ---- login.PostHandler.Handle, one request at a time ----
    logPc,           \* position of Handle in the request
    logReqBody,      \* r.Body: Garbage, or the PostReq it decodes to
    logUser,         \* the local user
    logStatus,       \* the status codes given to w.WriteHeader, in order
    logCookies,      \* the cookies given to http.SetCookie, in order
    logCalls,        \* the collaborators called, in order, with arguments
    logLogged,       \* the number of calls of h.log.Error
    \* ---- the token codec ----
    issued,          \* the calls of Encode that returned a token string
    decoded,         \* the last call of Decode: its arguments and result
    \* ---- the wall clock ----
    now              \* time.Now(), in hours

readVars == <<authHeader, readState, readOut>>
apiVars  == <<methodHandlers, authTokenValidator, pc, rMethod, rAuth,
              unvisited, allowedMethods, method, authToken, sub, wHeader,
              wStatus, wBody, handled, calls>>
colVars  == <<colPc, colMethod, colAuth, colQueryID, colSub, column,
              colHeader, colStatus, colCalls>>
histVars == <<prevResp>>
concVars == <<inflight, slices, regInflight>>
regVars  == <<regPc, regMethod, regReqBody, regHeader, regStatus,
              regCookies, regResBody, regCalls, users>>
clockVars == <<now>>
codecVars == <<issued, decoded>>
loginVars == <<logPc, logReqBody, logUser, logStatus, logCookies, logCalls,
               logLogged>>
tailVars == <<regVars, loginVars, codecVars, clockVars>>
extVars  == <<histVars, concVars, tailVars>>
dispatcherVars == <<readVars, apiVars, colVars, histVars, concVars>>
vars     == <<readVars, apiVars, colVars, extVars>>

----------------------------------------------------------------------------
(* Bounds *)

\* the longest header value, in chunks, given to Read on its own
MaxChunks == 5
\* the longest Authorization header, in chunks, of a request to a route
MaxReqChunks == 3
\* the goroutines net/http runs ServeHTTP of one Handler on at a time
NumGoroutines == 2
\* the latest hour the wall clock reaches
MaxNow == 2
\* the token strings Encode has issued and that are still in use
MaxIssued == 2

----------------------------------------------------------------------------
(* Strings *)

SP == " "
Bearer == <<"B", "e", "a", "r", "e", "r">>

\* the pieces header values are built from: the scheme word, a space and
\* three token characters
Chunks == {Bearer, <<SP>>, <<"a">>, <<"b">>, <<"x">>}

RECURSIVE ChunkStrings(_)
ChunkStrings(n) ==
    IF n = 0 THEN {<<>>}
    ELSE LET prev == ChunkStrings(n - 1)
         IN  prev \cup {s \o c : s \in prev, c \in Chunks}

\* strings.Split(s, sep) for a one-character separator: the substrings
\* between the separators, one more than there are separators
RECURSIVE Split(_, _)
Split(s, sep) ==
    LET at == {i \in 1..Len(s) : s[i] = sep}
    IN  IF at = {} THEN <<s>>
        ELSE LET i == CHOOSE j \in at : \A k \in at : j <= k
             IN  <<SubSeq(s, 1, i - 1)>> \o Split(SubSeq(s, i + 1, Len(s)), sep)

----------------------------------------------------------------------------
(* auth.BearerTokenReader.Read *)

Returned(v) == [kind |-> "returned", val |-> v]
Panicked    == [kind |-> "panicked", val |-> <<>>]

\* Read returning the first part where the code returns the second
ReadOffByOne(h) ==
    LET s == Split(h, SP)
    IN  IF s[1] # Bearer THEN Returned(<<>>)
        ELSE IF Len(s) < 2 THEN Panicked
        ELSE IF s[2] = <<>> THEN Returned(<<>>)
        ELSE Returned(s[1])

\* The outcome of Read(h). Go indexes s from 0; s[0] is s[1] here. The
\* condition s[0] != "Bearer" || s[1] == "" evaluates s[1] only when
\* s[0] is "Bearer", and indexing past the end of s panics.
Read(h) ==
    LET s == Split(h, SP)
    IN  IF s[1] # Bearer THEN Returned(<<>>)
        ELSE IF Len(s) < 2 THEN Panicked
        ELSE IF s[2] = <<>> THEN Returned(<<>>)
        ELSE Returned(s[2])

ReadIdle == authHeader = <<>> /\ readState = "idle" /\ readOut = <<>>

\* One call of Read on its own.
ReadCall ==
    /\ readState = "pending"
    /\ readState' = Read(authHeader).kind
    /\ readOut' = Read(authHeader).val
    /\ UNCHANGED <<authHeader, apiVars, colVars, extVars>>

----------------------------------------------------------------------------
(* api.Handler.ServeHTTP *)

Methods == {"GET", "POST", "PATCH", "DELETE"}
\* the methods a request may carry: those a route may hold and one no
\* route holds
ReqMethods == Methods \cup {"PUT"}

StatusUnauthorized == 401
StatusMethodNotAllowed == 405
\* what a MethodHandler may write as its status
HandlerStatuses == {200, 400, 500}

\* auth.WWWAuthenticate(): the name and value of the challenge header
WWWAuthenticate == <<"WWW-Authenticate", "Bearer">>

\* AllowedMethods(methods): the name and value of the allowed-methods
\* header; the value is kept as the list of the methods it is made from
AllowedMethods(methods) == <<"Access-Control-Allow-Methods", methods>>

\* auth.TokenValidator.Validate: the subject of a token, "" when the token
\* does not verify. Token "a" is a valid token of bob123, "b" one of
\* alice1; nothing else verifies.
Validate(tok) ==
    IF tok = <<"a">> THEN "bob123"
    ELSE IF tok = <<"b">> THEN "alice1"
    ELSE ""

\* the append overwriting the slice: only the last key is kept
AppendMethodKeepLast(allowed, m) == <<m>>

\* allowedMethods = append(allowedMethods, method)
AppendMethod(allowed, m) == Append(allowed, m)

\* the comparison taking the first entry the loop produces
MethodMatchesAny(reqMethod, m) == TRUE

\* if r.Method == method
MethodMatches(reqMethod, m) == reqMethod = m

\* the check of the subject left out
UnauthenticatedNever(s) == FALSE

\* if sub == ""
Unauthenticated(s) == s = ""

\* a header telling the client what was wrong with its token
ChallengeHeadersWithReason(tok) ==
    {WWWAuthenticate,
     <<"X-Auth-Error", IF tok = <<>> THEN "no token" ELSE "invalid token">>}

\* w.Header().Set(auth.WWWAuthenticate()): the headers ServeHTTP sets when
\* the token tok did not verify
ChallengeHeaders(tok) == {WWWAuthenticate}

\* methodHandler.Handle(w, r, sub), methodHandler being the value the range
\* loop produced with the key m
HandleCall(m, s) == <<m, s>>

ApiIdle ==
    /\ pc = "idle"
    /\ rMethod = "" /\ rAuth = <<>>
    /\ unvisited = {} /\ allowedMethods = <<>> /\ method = ""
    /\ authToken = <<>> /\ sub = ""
    /\ wHeader = {} /\ wStatus = <<>> /\ wBody = <<>>
    /\ handled = <<>> /\ calls = <<>>

\* A request reaches ServeHTTP: var allowedMethods []string.
Receive ==
    /\ pc = "idle"
    /\ \E m \in ReqMethods, h \in ChunkStrings(MaxReqChunks) :
          /\ rMethod' = m
          /\ rAuth' = h
    /\ pc' = "range"
    /\ unvisited' = methodHandlers
    /\ allowedMethods' = <<>> /\ method' = ""
    /\ authToken' = <<>> /\ sub' = ""
    /\ wHeader' = {} /\ wStatus' = <<>> /\ wBody' = <<>>
    /\ handled' = <<>> /\ calls' = <<>>
    /\ UNCHANGED <<methodHandlers, authTokenValidator, readVars, colVars, extVars>>

\* One iteration of for method, methodHandler := range h.methodHandlers.
\* Go produces the entries of a map in no fixed order.
RangeNext ==
    /\ pc = "range"
    /\ \E m \in unvisited :
          /\ unvisited' = unvisited \ {m}
          /\ allowedMethods' = AppendMethod(allowedMethods, m)
          /\ IF MethodMatches(rMethod, m)
             THEN pc' = "read" /\ method' = m
             ELSE pc' = "range" /\ method' = method
    /\ UNCHANGED <<methodHandlers, authTokenValidator, rMethod, rAuth, authToken, sub, wHeader,
                   wStatus, wBody, handled, calls, readVars, colVars, extVars>>

\* authToken := h.authHeaderReader.Read(r.Header.Get(auth.AuthorizationHeader))
\* with the BearerTokenReader as the reader; its panic ends ServeHTTP.
ReadAuthHeader ==
    /\ pc = "read"
    /\ calls' = Append(calls, "Read")
    /\ IF Read(rAuth).kind = "panicked"
       THEN pc' = "panicked" /\ authToken' = authToken
       ELSE pc' = "validate" /\ authToken' = Read(rAuth).val
    /\ UNCHANGED <<methodHandlers, authTokenValidator, rMethod, rAuth, unvisited, allowedMethods,
                   method, sub, wHeader, wStatus, wBody, handled, readVars, colVars, extVars>>

\* sub := h.authTokenValidator.Validate(authToken)
ValidateToken ==
    /\ pc = "validate"
    /\ calls' = Append(calls, "Validate")
    /\ sub' = Validate(authToken)
    /\ pc' = "validated"
    /\ UNCHANGED <<methodHandlers, authTokenValidator, rMethod, rAuth, unvisited, allowedMethods,
                   method, authToken, wHeader, wStatus, wBody, handled, readVars, colVars, extVars>>

\* if sub == "" { w.Header().Set(auth.WWWAuthenticate());
\*                w.WriteHeader(http.StatusUnauthorized); return }
Unauthorized ==
    /\ pc = "validated"
    /\ Unauthenticated(sub)
    /\ wHeader' = wHeader \cup ChallengeHeaders(authToken)
    /\ wStatus' = Append(wStatus, <<"api", StatusUnauthorized>>)
    /\ pc' = "done"
    /\ UNCHANGED <<methodHandlers, authTokenValidator, rMethod, rAuth, unvisited, allowedMethods,
                   method, authToken, sub, wBody, handled, calls, readVars, colVars, extVars>>

\* the dispatcher answering 200 itself before it calls the handler
DispatchPathWritesOK == <<<<"api", 200>>>>

\* What ServeHTTP itself writes to w between the check of sub and its
\* return on the dispatch path: nothing, it only calls Handle.
DispatchPathWrites == <<>>

\* What Handle leaves in the response: the status of its choice and, if it
\* chooses, a body.
HandlerWrites(st, body) ==
    [status |-> <<<<"handler", st>>>>,
     body   |-> IF body THEN <<"handler">> ELSE <<>>]

\* methodHandler.Handle(w, r, sub); return.
Dispatch ==
    /\ pc = "validated"
    /\ ~Unauthenticated(sub)
    /\ handled' = Append(handled, HandleCall(method, sub))
    /\ \E st \in HandlerStatuses, body \in BOOLEAN :
          /\ wStatus' = wStatus \o DispatchPathWrites
                            \o HandlerWrites(st, body).status
          /\ wBody' = wBody \o HandlerWrites(st, body).body
    /\ pc' = "done"
    /\ UNCHANGED <<methodHandlers, authTokenValidator, rMethod, rAuth, unvisited, allowedMethods,
                   method, authToken, sub, wHeader, calls, readVars, colVars, extVars>>

\* The loop ended without a match:
\* w.Header().Add(AllowedMethods(allowedMethods));
\* w.WriteHeader(http.StatusMethodNotAllowed)
MethodNotAllowed ==
    /\ pc = "range"
    /\ unvisited = {}
    /\ wHeader' = wHeader \cup {AllowedMethods(allowedMethods)}
    /\ wStatus' = Append(wStatus, <<"api", StatusMethodNotAllowed>>)
    /\ pc' = "done"
    /\ UNCHANGED <<methodHandlers, authTokenValidator, rMethod, rAuth, unvisited, allowedMethods,
                   method, authToken, sub, wBody, handled, calls, readVars, colVars, extVars>>

\* ServeHTTP has returned, or net/http has recovered its panic; the locals
\* and the request are gone and the handler waits for the next request.
Return ==
    /\ pc \in {"done", "panicked"}
    /\ pc' = "idle"
    /\ rMethod' = "" /\ rAuth' = <<>>
    /\ unvisited' = {} /\ allowedMethods' = <<>> /\ method' = ""
    /\ authToken' = <<>> /\ sub' = ""
    /\ wHeader' = {} /\ wStatus' = <<>> /\ wBody' = <<>>
    /\ handled' = <<>> /\ calls' = <<>>
    /\ UNCHANGED <<methodHandlers, authTokenValidator, readVars, colVars, extVars>>

\* Why the Authorization header h yields no subject: there is none, the
\* reader finds no token in it, or the validator rejects the token.
FailureReason(h) ==
    IF h = <<>> THEN "missing"
    ELSE IF Read(h).val = <<>> THEN "malformed"
    ELSE "invalid"

NoResponse == [kind |-> "none", reason |-> "", status |-> <<>>,
               header |-> {}, body |-> <<>>]

\* The response to the finished request when ServeHTTP itself has refused the
\* request, with 401 or with 405.
Response ==
    LET statuses == {wStatus[i][2] : i \in DOMAIN wStatus}
        kind == IF pc = "panicked" \/ handled # <<>> THEN "none"
                ELSE IF StatusUnauthorized \in statuses THEN "401"
                ELSE "405"
    IN  IF kind = "none" THEN NoResponse
        ELSE [kind |-> kind,
              reason |-> IF kind = "401" THEN FailureReason(rAuth) ELSE "",
              status |-> wStatus, header |-> wHeader, body |-> wBody]

\* Return, the response being kept for comparison with the one to the next
\* request.
ReturnRecorded ==
    /\ pc \in {"done", "panicked"}
    /\ prevResp' = Response
    /\ pc' = "idle"
    /\ rMethod' = "" /\ rAuth' = <<>>
    /\ unvisited' = {} /\ allowedMethods' = <<>> /\ method' = ""
    /\ authToken' = <<>> /\ sub' = ""
    /\ wHeader' = {} /\ wStatus' = <<>> /\ wBody' = <<>>
    /\ handled' = <<>> /\ calls' = <<>>
    /\ UNCHANGED <<methodHandlers, authTokenValidator, readVars, colVars,
                   concVars, tailVars>>

----------------------------------------------------------------------------
(* api.Handler.ServeHTTP of cmd/api/main.go, whose NewHandler takes the    *)
(* token validator and the route table and is given nil as the validator   *)
(* of /user/register, /user/login, /team and /team/board. The             *)
(* authentication step is the one of section 4.3 of the specification: it  *)
(* is taken only when the route has a token validator.                     *)

\* the authentication step taken whatever the validator
AuthRequiredAlways(validator) == TRUE

\* the route was configured with a token validator
AuthRequired(validator) == validator # "nil"

\* Authentication on a route that has a token validator: the token is
\* extracted and validated as above.
OptReadAuthHeader ==
    /\ AuthRequired(authTokenValidator)
    /\ ReadAuthHeader

\* No token validator: the matched MethodHandler is invoked at once, with
\* no subject.
SkipAuth ==
    /\ pc = "read"
    /\ ~AuthRequired(authTokenValidator)
    /\ handled' = Append(handled, HandleCall(method, ""))
    /\ \E st \in HandlerStatuses, body \in BOOLEAN :
          /\ wStatus' = wStatus \o HandlerWrites(st, body).status
          /\ wBody' = wBody \o HandlerWrites(st, body).body
    /\ pc' = "done"
    /\ UNCHANGED <<methodHandlers, authTokenValidator, rMethod, rAuth,
                   unvisited, allowedMethods, method, authToken, sub, wHeader,
                   calls, readVars, colVars, extVars>>

----------------------------------------------------------------------------
(* column.Handler.ServeHTTP *)

StatusOK == 200
StatusBadRequest == 400
StatusInternalServerError == 500

\* the values of the id query parameter
QueryIDs == {<<>>, <<"1">>, <<"2">>}

\* columnTable.Record: the rows the column selector may return; a column's
\* own ID differs from the ID of its board
ColumnRecords == {[ID |-> 1, BoardID |-> 2], [ID |-> 2, BoardID |-> 1]}
NoColumn == [ID |-> 0, BoardID |-> 0]

\* the errors of the selectors
SelectErrs == {"nil", "sql.ErrNoRows", "other"}

\* strconv.Itoa on the IDs of ColumnRecords
Itoa(n) == IF n = 0 THEN <<"0">> ELSE IF n = 1 THEN <<"1">> ELSE <<"2">>

ColIdle ==
    /\ colPc = "idle"
    /\ colMethod = "" /\ colAuth = <<>> /\ colQueryID = <<>>
    /\ colSub = "" /\ column = NoColumn
    /\ colHeader = {} /\ colStatus = <<>> /\ colCalls = <<>>

\* A request reaches ServeHTTP.
ColReceive ==
    /\ colPc = "idle"
    /\ \E m \in ReqMethods, h \in ChunkStrings(MaxReqChunks), id \in QueryIDs :
          /\ colMethod' = m
          /\ colAuth' = h
          /\ colQueryID' = id
    /\ colPc' = "method"
    /\ UNCHANGED <<colSub, column, colHeader, colStatus, colCalls,
                   readVars, apiVars, extVars>>

\* if r.Method != http.MethodPatch {
\*     w.Header().Add(api.AllowedMethods(http.MethodPost))
\*     w.WriteHeader(http.StatusMethodNotAllowed) }
\* The block has no return: ServeHTTP goes on to the authentication.
ColMethodCheck ==
    /\ colPc = "method"
    /\ IF colMethod # "PATCH"
       THEN /\ colHeader' = colHeader \cup {AllowedMethods(<<"POST">>)}
            /\ colStatus' = Append(colStatus, StatusMethodNotAllowed)
       ELSE UNCHANGED <<colHeader, colStatus>>
    /\ colPc' = "auth"
    /\ UNCHANGED <<colMethod, colAuth, colQueryID, colSub, column, colCalls,
                   readVars, apiVars, extVars>>

\* authToken := h.authHeaderReader.Read(...);
\* sub := h.authTokenValidator.Validate(authToken);
\* if sub == "" { w.Header().Set(auth.WWWAuthenticate());
\*                w.WriteHeader(http.StatusUnauthorized); return }
ColAuthenticate ==
    /\ colPc = "auth"
    /\ IF Read(colAuth).kind = "panicked"
       THEN /\ colCalls' = Append(colCalls, <<"Read">>)
            /\ colPc' = "panicked"
            /\ UNCHANGED <<colSub, colHeader, colStatus>>
       ELSE /\ colCalls' = colCalls \o <<<<"Read">>, <<"Validate">>>>
            /\ colSub' = Validate(Read(colAuth).val)
            /\ IF Unauthenticated(colSub')
               THEN /\ colHeader' = colHeader \cup {WWWAuthenticate}
                    /\ colStatus' = Append(colStatus, StatusUnauthorized)
                    /\ colPc' = "done"
               ELSE /\ colPc' = "id"
                    /\ UNCHANGED <<colHeader, colStatus>>
    /\ UNCHANGED <<colMethod, colAuth, colQueryID, column, readVars, apiVars, extVars>>

\* The statuses written when a JSON error body is sent with status st:
\* w.WriteHeader(st), and w.WriteHeader(500) when encoding the body fails.
BodyWrites(st, encodeFails) ==
    IF encodeFails THEN <<st, StatusInternalServerError>> ELSE <<st>>

\* columnID := r.URL.Query().Get("id");
\* if err := h.idValidator.Validate(columnID); err != nil { 400; return }
ColValidateID ==
    /\ colPc = "id"
    /\ \E err \in BOOLEAN, encodeFails \in BOOLEAN :
          /\ colCalls' = Append(colCalls,
                 <<"idValidator", colQueryID, IF err THEN "err" ELSE "nil">>)
          /\ IF err
             THEN /\ colStatus' =
                       colStatus \o BodyWrites(StatusBadRequest, encodeFails)
                  /\ colPc' = "done"
             ELSE /\ ~encodeFails
                  /\ colPc' = "select"
                  /\ UNCHANGED colStatus
    /\ UNCHANGED <<colMethod, colAuth, colQueryID, colSub, column, colHeader,
                   readVars, apiVars, extVars>>

\* column, err := h.columnSelector.Select(columnID): sql.ErrNoRows is
\* answered 400, any other error 500.
ColSelectColumn ==
    /\ colPc = "select"
    /\ \E err \in SelectErrs, rec \in ColumnRecords, encodeFails \in BOOLEAN :
          /\ colCalls' = Append(colCalls,
                                <<"columnSelector", colQueryID, err>>)
          /\ CASE err = "sql.ErrNoRows" ->
                     /\ colStatus' =
                          colStatus \o BodyWrites(StatusBadRequest, encodeFails)
                     /\ colPc' = "done"
                     /\ column' = NoColumn
               [] err = "other" ->
                     /\ ~encodeFails
                     /\ colStatus' = Append(colStatus, StatusInternalServerError)
                     /\ colPc' = "done"
                     /\ column' = NoColumn
               [] err = "nil" ->
                     /\ ~encodeFails
                     /\ column' = rec
                     /\ colPc' = "access"
                     /\ UNCHANGED colStatus
    /\ UNCHANGED <<colMethod, colAuth, colQueryID, colSub, colHeader,
                   readVars, apiVars, extVars>>

\* _, err = h.userBoardSelector.Select(sub, strconv.Itoa(column.ID)):
\* sql.ErrNoRows is answered 401; after any other result
\* w.WriteHeader(http.StatusOK).
ColSelectUserBoard ==
    /\ colPc = "access"
    /\ \E err \in SelectErrs, encodeFails \in BOOLEAN :
          /\ colCalls' = Append(colCalls,
                 <<"userBoardSelector", colSub, Itoa(column.ID), err>>)
          /\ IF err = "sql.ErrNoRows"
             THEN colStatus' =
                      colStatus \o BodyWrites(StatusUnauthorized, encodeFails)
             ELSE /\ ~encodeFails
                  /\ colStatus' = Append(colStatus, StatusOK)
    /\ colPc' = "done"
    /\ UNCHANGED <<colMethod, colAuth, colQueryID, colSub, column, colHeader,
                   readVars, apiVars, extVars>>

\* ServeHTTP has returned, or net/http has recovered its panic.
ColReturn ==
    /\ colPc \in {"done", "panicked"}
    /\ colPc' = "idle"
    /\ colMethod' = "" /\ colAuth' = <<>> /\ colQueryID' = <<>>
    /\ colSub' = "" /\ column' = NoColumn
    /\ colHeader' = {} /\ colStatus' = <<>> /\ colCalls' = <<>>
    /\ UNCHANGED <<readVars, apiVars, extVars>>

----------------------------------------------------------------------------
(* api.Handler.ServeHTTP, requests served concurrently: net/http calls
   ServeHTTP of the one Handler on a goroutine per connection. The Handler's
   fields are shared by the goroutines; the request, the response writer and
   the locals of ServeHTTP belong to each call. *)

Goroutines == 1 .. NumGoroutines

\* the route tables, request methods and Authorization headers of the
\* concurrent requests
ConcTables == {{"GET"}, {"GET", "POST"}}
ConcMethods == {"GET", "POST", "PUT"}
ConcHeaders == {<<>>, Bearer, Bearer \o <<SP, "a">>, Bearer \o <<SP, "x">>}

\* allowedMethods kept in one place for all the calls of ServeHTTP
HandlerSlice(g) == 1

\* var allowedMethods []string: the slice the call of ServeHTTP on goroutine
\* g appends to is a local of that call
LocalSlice(g) == g

IdleGoroutine ==
    [pc |-> "idle", rMethod |-> "", rAuth |-> <<>>, unvisited |-> {},
     method |-> "", sub |-> "", wHeader |-> {}, wStatus |-> <<>>,
     handled |-> <<>>]

\* a goroutine of the register route with no request
IdleRegistration ==
    [pc |-> "idle", reqBody |-> [decodes |-> FALSE, Username |-> "",
                                 Password |-> ""],
     status |-> <<>>, cookies |-> <<>>, calls |-> <<>>]

ConcIdle ==
    /\ inflight = [g \in Goroutines |-> IdleGoroutine]
    /\ slices = [g \in Goroutines |-> <<>>]
    /\ regInflight = [g \in Goroutines |-> IdleRegistration]

\* A request reaches ServeHTTP on goroutine g: var allowedMethods []string.
ConcReceive(g) ==
    /\ inflight[g].pc = "idle"
    /\ \E m \in ConcMethods, h \in ConcHeaders :
          inflight' = [inflight EXCEPT ![g] =
              [IdleGoroutine EXCEPT !.pc = "range", !.rMethod = m,
                                    !.rAuth = h,
                                    !.unvisited = methodHandlers]]
    /\ slices' = [slices EXCEPT ![LocalSlice(g)] = <<>>]
    /\ UNCHANGED <<regInflight, readVars, apiVars, colVars, histVars,
                   tailVars>>

\* One iteration of the range loop on goroutine g.
ConcRangeNext(g) ==
    /\ inflight[g].pc = "range"
    /\ \E m \in inflight[g].unvisited :
          /\ slices' = [slices EXCEPT ![LocalSlice(g)] = AppendMethod(@, m)]
          /\ inflight' = [inflight EXCEPT ![g] =
                IF MethodMatches(inflight[g].rMethod, m)
                THEN [@ EXCEPT !.unvisited = @ \ {m}, !.pc = "auth",
                               !.method = m]
                ELSE [@ EXCEPT !.unvisited = @ \ {m}]]
    /\ UNCHANGED <<regInflight, readVars, apiVars, colVars, histVars,
                   tailVars>>

\* The body of if r.Method == method on goroutine g: Read, Validate, then
\* the 401 or the call of Handle; all of it works on locals of the call.
ConcAuthenticate(g) ==
    LET r == inflight[g]
        tok == Read(r.rAuth)
        s == Validate(tok.val)
    IN  /\ r.pc = "auth"
        /\ inflight' = [inflight EXCEPT ![g] =
              IF tok.kind = "panicked"
              THEN [r EXCEPT !.pc = "panicked"]
              ELSE IF Unauthenticated(s)
              THEN [r EXCEPT !.pc = "done", !.sub = s,
                             !.wHeader = ChallengeHeaders(tok.val),
                             !.wStatus = <<<<"api", StatusUnauthorized>>>>]
              ELSE [r EXCEPT !.pc = "done", !.sub = s,
                             !.wStatus = DispatchPathWrites,
                             !.handled = <<HandleCall(r.method, s)>>]]
        /\ UNCHANGED <<slices, regInflight, readVars, apiVars, colVars,
                      histVars, tailVars>>

\* The loop of goroutine g ended without a match.
ConcMethodNotAllowed(g) ==
    /\ inflight[g].pc = "range"
    /\ inflight[g].unvisited = {}
    /\ inflight' = [inflight EXCEPT ![g] =
          [@ EXCEPT !.pc = "done",
                    !.wHeader = {AllowedMethods(slices[LocalSlice(g)])},
                    !.wStatus = <<<<"api", StatusMethodNotAllowed>>>>]]
    /\ UNCHANGED <<slices, regInflight, readVars, apiVars, colVars,
                      histVars, tailVars>>

\* ServeHTTP has returned on goroutine g, or its panic was recovered.
ConcReturn(g) ==
    /\ inflight[g].pc \in {"done", "panicked"}
    /\ inflight' = [inflight EXCEPT ![g] = IdleGoroutine]
    /\ slices' = [slices EXCEPT ![LocalSlice(g)] = <<>>]
    /\ UNCHANGED <<regInflight, readVars, apiVars, colVars, histVars,
                   tailVars>>

----------------------------------------------------------------------------
(* The wall clock *)

ClockIdle == now = 0

\* An hour passes.
Tick ==
    /\ now < MaxNow
    /\ now' = now + 1
    /\ UNCHANGED <<dispatcherVars, regVars, loginVars, codecVars>>

----------------------------------------------------------------------------
(* The token codec: token.EncodeAuth, token.EncodeState, token.DecodeAuth
   and token.DecodeState, which cmd/api/main.go hands to the handlers. A
   token string is the triple of its kind, its payload (claims, expiry and
   the instant of issue) and the signature of the two under the secret. *)

Kinds == {"auth", "state"}

\* token.NewAuth(username, isAdmin, teamID) and the state claims
ClaimsOf(kind) ==
    IF kind = "auth"
    THEN [Username : {"bob123"}, IsAdmin : BOOLEAN, TeamID : {"team1"}]
    ELSE [BoardID : {"board1"}]

\* the expiries a handler asks for at the instant t: t itself or an hour on
Expiries(t) == {t, t + 1}

\* the secret the server signs with, and one it does not know of
ServerKey == "JWTKEY"
OtherKey == "forged"

Sign(key, kind, payload) == <<"sig", key, kind, payload>>

\* Encode leaving the signature out
EncodeUnsigned(key, kind, exp, claims, iat) ==
    <<kind, [claims |-> claims, exp |-> exp, iat |-> iat], <<>>>>

\* Encode(expiry, claims) of a kind: the signed string binding the claims
\* and the expiry
Encode(key, kind, exp, claims, iat) ==
    LET payload == [claims |-> claims, exp |-> exp, iat |-> iat]
    IN  <<kind, payload, Sign(key, kind, payload)>>

\* expiry checked with the instant of expiry still allowed
ExpiredAfter(t, exp) == t > exp

\* the expiry has passed: decoding exactly at expiry is expired
Expired(t, exp) == t >= exp

DecodeFailed(why) == [ok |-> FALSE, why |-> why, claims |-> <<>>]

\* Decode(tokenString) of a kind at the instant t: all or nothing
Decode(key, kind, tok, t) ==
    IF Len(tok) # 3 THEN DecodeFailed("malformed")
    ELSE IF tok[1] # kind \/ tok[3] # Sign(key, kind, tok[2])
    THEN DecodeFailed("signature")
    ELSE IF Expired(t, tok[2].exp) THEN DecodeFailed("expired")
    ELSE [ok |-> TRUE, why |-> "", claims |-> tok[2].claims]

\* What a client can present that Encode did not return: an issued string
\* cut short, with its expiry moved or its kind swapped and the signature
\* kept, or a string signed with another secret.
Tampered(tok) ==
    {<<tok[1], tok[2]>>,
     <<tok[1], [tok[2] EXCEPT !.exp = @ + 1], tok[3]>>,
     <<CHOOSE k \in Kinds : k # tok[1], tok[2], tok[3]>>,
     <<tok[1], tok[2], Sign(OtherKey, tok[1], tok[2])>>}

NoDecode == [kind |-> "", tok |-> <<>>, at |-> 0, res |-> DecodeFailed("")]

CodecIdle == issued = {} /\ decoded = NoDecode

\* A handler encodes claims of a kind with an expiry.
CodecEncode ==
    /\ Cardinality(issued) < MaxIssued
    /\ \E kind \in Kinds, exp \in Expiries(now) :
          \E claims \in ClaimsOf(kind) :
              issued' = issued \cup
                  {[kind |-> kind, exp |-> exp, claims |-> claims,
                    tok |-> Encode(ServerKey, kind, exp, claims, now)]}
    /\ UNCHANGED <<decoded, dispatcherVars, regVars, loginVars,
                   clockVars>>

\* A handler decodes the string a request carries: one that was issued or
\* one made from it.
CodecDecode ==
    /\ \E i \in issued, kind \in Kinds :
          \E tok \in {i.tok} \cup Tampered(i.tok) :
              decoded' = [kind |-> kind, tok |-> tok, at |-> now,
                          res |-> Decode(ServerKey, kind, tok, now)]
    /\ UNCHANGED <<issued, dispatcherVars, regVars, loginVars,
                   clockVars>>

\* A token string goes out of use.
CodecForget ==
    /\ \E i \in issued : issued' = issued \ {i}
    /\ decoded' = NoDecode
    /\ UNCHANGED <<dispatcherVars, regVars, loginVars,
                   clockVars>>

----------------------------------------------------------------------------
(* register.Handler.ServeHTTP of src/unnamed/part_001. The validator, the
   user reader, the hasher, the user creator and the token generator are
   interfaces: each call ends in one of the results its signature allows.
   The user table answers the reader from the usernames it holds, or fails. *)

Usernames == {"bob123", "alice1"}
Passwords == {"Myp4ssword!"}

\* a request body that is not the JSON of a ReqBody
Garbage == [decodes |-> FALSE, Username |-> "", Password |-> ""]

\* r.Body
RegReqBodies ==
    {Garbage} \cup
    [decodes : {TRUE}, Username : Usernames, Password : Passwords]

\* time.Now().Add(1 * time.Hour)
RegisterTokenHours == 1

strErrUsernameTaken == "Username is already taken."
errAuth == "You have been registered successfuly but something went wrong. Please log in using the credentials you registered with."

\* relay.ServerErr(w, msg): a 500 with an empty body, as TestHandler finds
\* it; the message is for the log
RelayServerErr(msg) ==
    [status |-> <<StatusInternalServerError>>, body |-> <<>>]

\* relay.ClientJSON(w, resBody, status), relay.ClientErr(w, resBody, msg,
\* status): the given status with the response body
RelayClient(msg, status) == [status |-> <<status>>, body |-> <<msg>>]

\* the validation errors passed over
ValidationFailedNever(errs) == FALSE

\* if errs := h.validator.Validate(reqBody); errs != nil
ValidationFailed(errs) == errs

\* the username never found taken
UsernameTakenNever(err) == FALSE

\* if _, err := h.userReader.Read(reqBody.Username); err == nil
UsernameTaken(err) == err = "nil"

\* the failure of the token generator answered as a server error
GenerateFailedServerErr == RelayServerErr("generate")

\* relay.ClientErr(w, resBody, resBody.ValidationErrs.Auth,
\*                 http.StatusUnauthorized), ValidationErrs.Auth being errAuth
GenerateFailed == RelayClient(errAuth, StatusUnauthorized)

\* what h.hasher.Hash returns with a nil error
HashOf(pwd) == <<"hash", pwd>>

\* what h.tokenGenerator.Generate returns with a nil error
Generated(username, expiry) == <<"jwt", username, expiry>>

\* the cookie of a successful registration, Expires an hour off
RegisterCookieLate(tokenStr, expiry) ==
    [Name |-> "authToken", Value |-> tokenStr, Expires |-> expiry + 1]

\* &http.Cookie{Name: "authToken", Value: tokenStr, Expires: expiry.UTC()}
RegisterCookie(tokenStr, expiry) ==
    [Name |-> "authToken", Value |-> tokenStr, Expires |-> expiry]

\* the headers set before w.WriteHeader(http.StatusMethodNotAllowed): none
RegisterNotAllowedHeaders == {}

RegIdle ==
    /\ regPc = "idle"
    /\ regMethod = "" /\ regReqBody = Garbage
    /\ regHeader = {} /\ regStatus = <<>> /\ regCookies = <<>>
    /\ regResBody = <<>> /\ regCalls = <<>>

\* A request reaches ServeHTTP.
RegReceive ==
    /\ regPc = "idle"
    /\ regMethod' \in {"POST", "GET"}
    /\ regReqBody' \in RegReqBodies
    /\ regPc' = "method"
    /\ regHeader' = {} /\ regStatus' = <<>> /\ regCookies' = <<>>
    /\ regResBody' = <<>> /\ regCalls' = <<>>
    /\ UNCHANGED <<users, dispatcherVars, loginVars,
                   codecVars, clockVars>>

\* if r.Method != http.MethodPost { w.WriteHeader(405); return }
RegMethodCheck ==
    /\ regPc = "method"
    /\ IF regMethod # "POST"
       THEN /\ regHeader' = regHeader \cup RegisterNotAllowedHeaders
            /\ regStatus' = Append(regStatus, StatusMethodNotAllowed)
            /\ regPc' = "done"
       ELSE /\ regPc' = "decode"
            /\ UNCHANGED <<regHeader, regStatus>>
    /\ UNCHANGED <<regMethod, regReqBody, regCookies, regResBody, regCalls,
                   users, dispatcherVars, loginVars,
                   codecVars, clockVars>>

\* json.NewDecoder(r.Body).Decode(&reqBody)
RegDecode ==
    /\ regPc = "decode"
    /\ IF ~regReqBody.decodes
       THEN /\ regStatus' = regStatus \o RelayServerErr("decode").status
            /\ regResBody' = regResBody \o RelayServerErr("decode").body
            /\ regPc' = "done"
       ELSE /\ regPc' = "validate"
            /\ UNCHANGED <<regStatus, regResBody>>
    /\ UNCHANGED <<regMethod, regReqBody, regHeader, regCookies, regCalls,
                   users, dispatcherVars, loginVars,
                   codecVars, clockVars>>

\* h.validator.Validate(reqBody)
RegValidate ==
    /\ regPc = "validate"
    /\ \E errs \in BOOLEAN :
          /\ regCalls' = Append(regCalls,
                 <<"validator", regReqBody, IF errs THEN "errs" ELSE "nil">>)
          /\ IF ValidationFailed(errs)
             THEN /\ regStatus' = regStatus \o
                        RelayClient("validation", StatusBadRequest).status
                  /\ regResBody' = regResBody \o
                        RelayClient("validation", StatusBadRequest).body
                  /\ regPc' = "done"
             ELSE /\ regPc' = "read"
                  /\ UNCHANGED <<regStatus, regResBody>>
    /\ UNCHANGED <<regMethod, regReqBody, regHeader, regCookies, users,
                   dispatcherVars, loginVars,
                   codecVars, clockVars>>

\* what h.userReader.Read(username) returns as its error: nil for a username
\* of the table, sql.ErrNoRows for another, or the failure of the database
UserReaderErrs(username) ==
    (IF username \in users THEN {"nil"} ELSE {"ErrNoRows"}) \cup {"other"}

\* h.userReader.Read(reqBody.Username)
RegReadUser ==
    /\ regPc = "read"
    /\ \E err \in UserReaderErrs(regReqBody.Username) :
          /\ regCalls' = Append(regCalls,
                 <<"userReader", regReqBody.Username, err>>)
          /\ IF UsernameTaken(err)
             THEN /\ regStatus' = regStatus \o
                        RelayClient(strErrUsernameTaken, StatusBadRequest).status
                  /\ regResBody' = regResBody \o
                        RelayClient(strErrUsernameTaken, StatusBadRequest).body
                  /\ regPc' = "done"
             ELSE IF err # "ErrNoRows"
             THEN /\ regStatus' = regStatus \o RelayServerErr("read").status
                  /\ regResBody' = regResBody \o RelayServerErr("read").body
                  /\ regPc' = "done"
             ELSE /\ regPc' = "hash"
                  /\ UNCHANGED <<regStatus, regResBody>>
    /\ UNCHANGED <<regMethod, regReqBody, regHeader, regCookies, users,
                   dispatcherVars, loginVars,
                   codecVars, clockVars>>

\* h.hasher.Hash(reqBody.Password)
RegHash ==
    /\ regPc = "hash"
    /\ \E ok \in BOOLEAN :
          /\ regCalls' = Append(regCalls,
                 <<"hasher", regReqBody.Password, IF ok THEN "nil" ELSE "err">>)
          /\ IF ok
             THEN /\ regPc' = "create"
                  /\ UNCHANGED <<regStatus, regResBody>>
             ELSE /\ regStatus' = regStatus \o RelayServerErr("hash").status
                  /\ regResBody' = regResBody \o RelayServerErr("hash").body
                  /\ regPc' = "done"
    /\ UNCHANGED <<regMethod, regReqBody, regHeader, regCookies, users,
                   dispatcherVars, loginVars,
                   codecVars, clockVars>>

\* h.userCreator.Create(db.NewUser(reqBody.Username, pwdHash))
RegCreate ==
    /\ regPc = "create"
    /\ \E ok \in BOOLEAN :
          /\ regCalls' = Append(regCalls,
                 <<"userCreator", regReqBody.Username,
                   HashOf(regReqBody.Password), IF ok THEN "nil" ELSE "err">>)
          /\ IF ok
             THEN /\ users' = users \cup {regReqBody.Username}
                  /\ regPc' = "generate"
                  /\ UNCHANGED <<regStatus, regResBody>>
             ELSE /\ regStatus' = regStatus \o RelayServerErr("create").status
                  /\ regResBody' = regResBody \o RelayServerErr("create").body
                  /\ regPc' = "done"
                  /\ UNCHANGED users
    /\ UNCHANGED <<regMethod, regReqBody, regHeader, regCookies,
                   dispatcherVars, loginVars,
                   codecVars, clockVars>>

\* expiry := time.Now().Add(1 * time.Hour);
\* h.tokenGenerator.Generate(reqBody.Username, expiry), then the 401 or the
\* cookie and the 200.
RegGenerate ==
    LET expiry == now + RegisterTokenHours
    IN  /\ regPc = "generate"
        /\ \E ok \in BOOLEAN :
              /\ regCalls' = Append(regCalls,
                     <<"tokenGenerator", regReqBody.Username, expiry,
                       IF ok THEN Generated(regReqBody.Username, expiry)
                             ELSE <<>>,
                       IF ok THEN "nil" ELSE "err">>)
              /\ IF ok
                 THEN /\ regCookies' = Append(regCookies,
                            RegisterCookie(
                                Generated(regReqBody.Username, expiry), expiry))
                      /\ regStatus' = Append(regStatus, StatusOK)
                      /\ UNCHANGED regResBody
                 ELSE /\ regStatus' = regStatus \o GenerateFailed.status
                      /\ regResBody' = regResBody \o GenerateFailed.body
                      /\ UNCHANGED regCookies
        /\ regPc' = "done"
        /\ UNCHANGED <<regMethod, regReqBody, regHeader, users,
                       dispatcherVars, loginVars,
                   codecVars, clockVars>>

\* ServeHTTP has returned; the user table keeps what was created.
RegReturn ==
    /\ regPc = "done"
    /\ regPc' = "idle"
    /\ regMethod' = "" /\ regReqBody' = Garbage
    /\ regHeader' = {} /\ regStatus' = <<>> /\ regCookies' = <<>>
    /\ regResBody' = <<>> /\ regCalls' = <<>>
    /\ UNCHANGED <<users, dispatcherVars, loginVars,
                   codecVars, clockVars>>

----------------------------------------------------------------------------
(* register.Handler.ServeHTTP, requests served concurrently. The goroutines
   share the user table behind userReader and userCreator; the request, the
   response and the locals belong to each call. The steps of a call that
   touch nothing shared are taken together with the next one that does. *)

regSeqVars == <<regPc, regMethod, regReqBody, regHeader, regStatus,
                regCookies, regResBody, regCalls>>

\* A POST with a body that decodes reaches ServeHTTP on goroutine g and the
\* validator accepts or rejects it.
RegConcReceive(g) ==
    /\ regInflight[g].pc = "idle"
    /\ \E body \in RegReqBodies \ {Garbage}, errs \in BOOLEAN :
          regInflight' = [regInflight EXCEPT ![g] =
              IF ValidationFailed(errs)
              THEN [IdleRegistration EXCEPT
                       !.pc = "done", !.reqBody = body,
                       !.status = RelayClient("validation",
                                              StatusBadRequest).status,
                       !.calls = <<<<"validator", body, "errs">>>>]
              ELSE [IdleRegistration EXCEPT
                       !.pc = "read", !.reqBody = body,
                       !.calls = <<<<"validator", body, "nil">>>>]]
    /\ UNCHANGED <<inflight, slices, users, regSeqVars, readVars, apiVars,
                   colVars, histVars, loginVars, codecVars, clockVars>>

\* h.userReader.Read(reqBody.Username) on goroutine g.
RegConcReadUser(g) ==
    LET r == regInflight[g]
    IN  /\ r.pc = "read"
        /\ \E err \in UserReaderErrs(r.reqBody.Username) :
              regInflight' = [regInflight EXCEPT ![g] =
                  LET called == [r EXCEPT !.calls = Append(@,
                          <<"userReader", r.reqBody.Username, err>>)]
                  IN  IF UsernameTaken(err)
                      THEN [called EXCEPT !.pc = "done",
                               !.status = RelayClient(strErrUsernameTaken,
                                              StatusBadRequest).status]
                      ELSE IF err # "ErrNoRows"
                      THEN [called EXCEPT !.pc = "done",
                               !.status = RelayServerErr("read").status]
                      ELSE [called EXCEPT !.pc = "create"]]
        /\ UNCHANGED <<inflight, slices, users, regSeqVars, readVars,
                       apiVars, colVars, histVars, loginVars, codecVars,
                       clockVars>>

\* h.hasher.Hash(reqBody.Password) and
\* h.userCreator.Create(db.NewUser(reqBody.Username, pwdHash)) on
\* goroutine g.
RegConcCreate(g) ==
    LET r == regInflight[g]
    IN  /\ r.pc = "create"
        /\ \E hashed \in BOOLEAN, created \in BOOLEAN :
              LET hashCall == <<"hasher", r.reqBody.Password,
                                IF hashed THEN "nil" ELSE "err">>
                  createCall == <<"userCreator", r.reqBody.Username,
                                  HashOf(r.reqBody.Password),
                                  IF created THEN "nil" ELSE "err">>
              IN  IF ~hashed
                  THEN /\ ~created
                       /\ regInflight' = [regInflight EXCEPT ![g] =
                             [r EXCEPT !.pc = "done",
                                 !.calls = Append(@, hashCall),
                                 !.status = RelayServerErr("hash").status]]
                       /\ UNCHANGED users
                  ELSE IF ~created
                  THEN /\ regInflight' = [regInflight EXCEPT ![g] =
                             [r EXCEPT !.pc = "done",
                                 !.calls = @ \o <<hashCall, createCall>>,
                                 !.status = RelayServerErr("create").status]]
                       /\ UNCHANGED users
                  ELSE /\ regInflight' = [regInflight EXCEPT ![g] =
                             [r EXCEPT !.pc = "generate",
                                 !.calls = @ \o <<hashCall, createCall>>]]
                       /\ users' = users \cup {r.reqBody.Username}
        /\ UNCHANGED <<inflight, slices, regSeqVars, readVars, apiVars,
                       colVars, histVars, loginVars, codecVars, clockVars>>

\* h.tokenGenerator.Generate(reqBody.Username, expiry) on goroutine g,
\* then the 401 or the cookie and the 200.
RegConcGenerate(g) ==
    LET r == regInflight[g]
        expiry == now + RegisterTokenHours
        tokenStr == Generated(r.reqBody.Username, expiry)
    IN  /\ r.pc = "generate"
        /\ \E ok \in BOOLEAN :
              regInflight' = [regInflight EXCEPT ![g] =
                  IF ok
                  THEN [r EXCEPT !.pc = "done",
                           !.calls = Append(@, <<"tokenGenerator",
                               r.reqBody.Username, expiry, tokenStr, "nil">>),
                           !.cookies = <<RegisterCookie(tokenStr, expiry)>>,
                           !.status = <<StatusOK>>]
                  ELSE [r EXCEPT !.pc = "done",
                           !.calls = Append(@, <<"tokenGenerator",
                               r.reqBody.Username, expiry, <<>>, "err">>),
                           !.status = GenerateFailed.status]]
        /\ UNCHANGED <<inflight, slices, users, regSeqVars, readVars,
                       apiVars, colVars, histVars, loginVars, codecVars,
                       clockVars>>

\* ServeHTTP has returned on goroutine g.
RegConcReturn(g) ==
    /\ regInflight[g].pc = "done"
    /\ regInflight' = [regInflight EXCEPT ![g] = IdleRegistration]
    /\ UNCHANGED <<inflight, slices, users, regSeqVars, readVars, apiVars,
                   colVars, histVars, loginVars, codecVars, clockVars>>

----------------------------------------------------------------------------
(* login.PostHandler.Handle of src/internal/api/login/post.go. The
   validator, the user getter, the password comparator, encodeAuth and the
   log are collaborators given to NewPostHandler: each call ends in one of
   the results its signature allows. *)

\* token.AuthName, the name of the cookie of the auth token
AuthName == "token.AuthName"

\* token.AuthDurationDefault, in hours
AuthDurationDefault == 1

\* the user table behind h.userGetter
UserTable ==
    [u \in Usernames |->
        [Username |-> u, Password |-> HashOf("Myp4ssword!"),
         IsAdmin |-> (u = "bob123"), TeamID |-> "team1"]]

NoUser == [Username |-> "", Password |-> <<>>, IsAdmin |-> FALSE,
           TeamID |-> ""]

\* token.NewAuth(user.Username, user.IsAdmin, user.TeamID)
NewAuth(username, isAdmin, teamID) ==
    [Username |-> username, IsAdmin |-> isAdmin, TeamID |-> teamID]

\* the cookie of the auth token left to the defaults of http.Cookie
LoginCookieDefaults(tokenStr, exp) ==
    [Name |-> AuthName, Value |-> tokenStr, Expires |-> exp,
     SameSite |-> "Default", Secure |-> FALSE]

\* &http.Cookie{Name: token.AuthName, Value: authToken, Expires: exp,
\*              SameSite: http.SameSiteNoneMode, Secure: true}
LoginCookie(tokenStr, exp) ==
    [Name |-> AuthName, Value |-> tokenStr, Expires |-> exp,
     SameSite |-> "None", Secure |-> TRUE]

LogReqBodies ==
    {Garbage} \cup
    [decodes : {TRUE}, Username : Usernames \cup {"carol9"},
     Password : Passwords \cup {"notmypwd"}]

LoginIdle ==
    /\ logPc = "idle"
    /\ logReqBody = Garbage /\ logUser = NoUser
    /\ logStatus = <<>> /\ logCookies = <<>> /\ logCalls = <<>>
    /\ logLogged = 0

\* The dispatcher calls Handle with a request.
LogReceive ==
    /\ logPc = "idle"
    /\ logReqBody' \in LogReqBodies
    /\ logPc' = "decode"
    /\ logUser' = NoUser
    /\ logStatus' = <<>> /\ logCookies' = <<>> /\ logCalls' = <<>>
    /\ logLogged' = 0
    /\ UNCHANGED <<dispatcherVars, regVars, codecVars, clockVars>>

\* json.NewDecoder(r.Body).Decode(&req)
LogDecode ==
    /\ logPc = "decode"
    /\ IF ~logReqBody.decodes
       THEN /\ logLogged' = logLogged + 1
            /\ logStatus' = Append(logStatus, StatusInternalServerError)
            /\ logPc' = "done"
       ELSE /\ logPc' = "validate"
            /\ UNCHANGED <<logLogged, logStatus>>
    /\ UNCHANGED <<logReqBody, logUser, logCookies, logCalls,
                   dispatcherVars, regVars, codecVars, clockVars>>

\* h.validator.Validate(req)
LogValidate ==
    /\ logPc = "validate"
    /\ \E ok \in BOOLEAN :
          /\ logCalls' = Append(logCalls, <<"validator", logReqBody, ok>>)
          /\ IF ok
             THEN logPc' = "get" /\ UNCHANGED logStatus
             ELSE /\ logStatus' = Append(logStatus, StatusBadRequest)
                  /\ logPc' = "done"
    /\ UNCHANGED <<logReqBody, logUser, logCookies, logLogged,
                   dispatcherVars, regVars, codecVars, clockVars>>

\* what h.userGetter.Get(ctx, username) returns as its error: nil for a
\* user of the table, db.ErrNoItem for another, or the failure of the
\* database
UserGetterErrs(username) ==
    (IF username \in DOMAIN UserTable THEN {"nil"} ELSE {"ErrNoItem"})
        \cup {"other"}

\* errors.Is(err, db.ErrNoItem)
IsErrNoItem(err) == err = "ErrNoItem"

\* user, err := h.userGetter.Get(r.Context(), req.Username)
LogGetUser ==
    /\ logPc = "get"
    /\ \E err \in UserGetterErrs(logReqBody.Username) :
          /\ logCalls' = Append(logCalls,
                 <<"userGetter", logReqBody.Username, err>>)
          /\ IF IsErrNoItem(err)
             THEN /\ logStatus' = Append(logStatus, StatusBadRequest)
                  /\ logPc' = "done"
                  /\ UNCHANGED <<logUser, logLogged>>
             ELSE IF err # "nil"
             THEN /\ logLogged' = logLogged + 1
                  /\ logStatus' = Append(logStatus,
                                         StatusInternalServerError)
                  /\ logPc' = "done"
                  /\ UNCHANGED logUser
             ELSE /\ logUser' = UserTable[logReqBody.Username]
                  /\ logPc' = "compare"
                  /\ UNCHANGED <<logStatus, logLogged>>
    /\ UNCHANGED <<logReqBody, logCookies, dispatcherVars, regVars,
                   codecVars, clockVars>>

\* what h.pwdComparator.Compare(hash, plaintext) returns: nil when the
\* hash is the one of the plaintext, bcrypt.ErrMismatchedHashAndPassword
\* when it is not, or another error
ComparatorErrs(hash, plaintext) ==
    (IF hash = HashOf(plaintext) THEN {"nil"} ELSE {"ErrMismatched"})
        \cup {"other"}

\* the mismatch not told from the other errors
IsErrMismatchedNever(err) == FALSE

\* errors.Is(err, bcrypt.ErrMismatchedHashAndPassword)
IsErrMismatched(err) == err = "ErrMismatched"

\* the other errors of the comparator let through
ComparatorFailedNever(err) == FALSE

\* else if err != nil, after Compare
ComparatorFailed(err) == err # "nil"

\* h.pwdComparator.Compare(user.Password, req.Password)
LogCompare ==
    /\ logPc = "compare"
    /\ \E err \in ComparatorErrs(logUser.Password, logReqBody.Password) :
          /\ logCalls' = Append(logCalls,
                 <<"pwdComparator", logUser.Password, logReqBody.Password,
                   err>>)
          /\ IF IsErrMismatched(err)
             THEN /\ logStatus' = Append(logStatus, StatusBadRequest)
                  /\ logPc' = "done"
                  /\ UNCHANGED logLogged
             ELSE IF ComparatorFailed(err)
             THEN /\ logLogged' = logLogged + 1
                  /\ logStatus' = Append(logStatus,
                                         StatusInternalServerError)
                  /\ logPc' = "done"
             ELSE /\ logPc' = "encode"
                  /\ UNCHANGED <<logStatus, logLogged>>
    /\ UNCHANGED <<logReqBody, logUser, logCookies, dispatcherVars,
                   regVars, codecVars, clockVars>>

\* exp := time.Now().Add(token.AuthDurationDefault).UTC();
\* h.encodeAuth(exp, token.NewAuth(...)), then the 500 or the cookie.
LogEncode ==
    LET exp == now + AuthDurationDefault
        claims == NewAuth(logUser.Username, logUser.IsAdmin, logUser.TeamID)
        encoded == Encode(ServerKey, "auth", exp, claims, now)
    IN  /\ logPc = "encode"
        /\ \E ok \in BOOLEAN :
              /\ logCalls' = Append(logCalls,
                     <<"encodeAuth", exp, claims,
                       IF ok THEN encoded ELSE <<>>>>)
              /\ IF ok
                    THEN /\ logCookies' = Append(logCookies,
                                                 LoginCookie(encoded, exp))
                         /\ UNCHANGED <<logStatus, logLogged>>
                    ELSE /\ logLogged' = logLogged + 1
                         /\ logStatus' = Append(logStatus,
                                                StatusInternalServerError)
                         /\ UNCHANGED logCookies
        /\ logPc' = "done"
        /\ UNCHANGED <<logReqBody, logUser, dispatcherVars, regVars,
                       codecVars, clockVars>>

\* Handle has returned.
LogReturn ==
    /\ logPc = "done"
    /\ logPc' = "idle"
    /\ logReqBody' = Garbage /\ logUser' = NoUser
    /\ logStatus' = <<>> /\ logCookies' = <<>> /\ logCalls' = <<>>
    /\ logLogged' = 0
    /\ UNCHANGED <<dispatcherVars, regVars, codecVars, clockVars>>

----------------------------------------------------------------------------
(* Components at rest *)

HistIdle == prevResp = NoResponse

TailIdle == RegIdle /\ users = {} /\ LoginIdle /\ CodecIdle /\ ClockIdle

ExtIdle == HistIdle /\ ConcIdle /\ TailIdle

----------------------------------------------------------------------------
(* Specifications *)

InitRead ==
    /\ authHeader \in ChunkStrings(MaxChunks)
    /\ readState = "pending"
    /\ readOut = <<>>
    /\ methodHandlers = {} /\ authTokenValidator = "jwt"
    /\ ApiIdle
    /\ ColIdle
    /\ ExtIdle

NextRead == ReadCall

SpecRead == InitRead /\ [][NextRead]_vars

\* A route served by api.Handler with the BearerTokenReader and a token
\* validator; the route table is fixed at construction.
Init ==
    /\ methodHandlers \in SUBSET Methods
    /\ authTokenValidator = "jwt"
    /\ ApiIdle
    /\ ReadIdle
    /\ ColIdle
    /\ ExtIdle

Next ==
    \/ Receive
    \/ RangeNext
    \/ ReadAuthHeader
    \/ ValidateToken
    \/ Unauthorized
    \/ Dispatch
    \/ MethodNotAllowed
    \/ Return

Spec == Init /\ [][Next]_vars

\* The same route, each response being kept until the next request has been
\* answered.
NextHistory ==
    \/ Receive
    \/ RangeNext
    \/ ReadAuthHeader
    \/ ValidateToken
    \/ Unauthorized
    \/ Dispatch
    \/ MethodNotAllowed
    \/ ReturnRecorded

SpecHistory == Init /\ [][NextHistory]_vars

\* One Handler serving the requests of several connections at a time.
InitConcurrent ==
    /\ methodHandlers \in ConcTables
    /\ authTokenValidator = "jwt"
    /\ ApiIdle
    /\ ReadIdle
    /\ ColIdle
    /\ ExtIdle

NextConcurrent ==
    \E g \in Goroutines :
        \/ ConcReceive(g)
        \/ ConcRangeNext(g)
        \/ ConcAuthenticate(g)
        \/ ConcMethodNotAllowed(g)
        \/ ConcReturn(g)

SpecConcurrent == InitConcurrent /\ [][NextConcurrent]_vars

\* The register route, the user table holding some users already.
InitRegister ==
    /\ methodHandlers = {} /\ authTokenValidator = "jwt"
    /\ ApiIdle
    /\ ReadIdle
    /\ ColIdle
    /\ HistIdle
    /\ ConcIdle
    /\ RegIdle
    /\ users \in SUBSET Usernames
    /\ LoginIdle
    /\ CodecIdle
    /\ ClockIdle

NextRegister ==
    \/ RegReceive
    \/ RegMethodCheck
    \/ RegDecode
    \/ RegValidate
    \/ RegReadUser
    \/ RegHash
    \/ RegCreate
    \/ RegGenerate
    \/ RegReturn
    \/ Tick

SpecRegister == InitRegister /\ [][NextRegister]_vars

\* The login route behind its dispatcher.
InitLogin ==
    /\ methodHandlers = {} /\ authTokenValidator = "jwt"
    /\ ApiIdle
    /\ ReadIdle
    /\ ColIdle
    /\ ExtIdle

NextLogin ==
    \/ LogReceive
    \/ LogDecode
    \/ LogValidate
    \/ LogGetUser
    \/ LogCompare
    \/ LogEncode
    \/ LogReturn
    \/ Tick

SpecLogin == InitLogin /\ [][NextLogin]_vars

\* The register route serving several connections at a time.
InitRegisterConcurrent ==
    /\ methodHandlers = {} /\ authTokenValidator = "jwt"
    /\ ApiIdle
    /\ ReadIdle
    /\ ColIdle
    /\ HistIdle
    /\ ConcIdle
    /\ RegIdle
    /\ users \in SUBSET Usernames
    /\ LoginIdle
    /\ CodecIdle
    /\ ClockIdle

NextRegisterConcurrent ==
    \E g \in Goroutines :
        \/ RegConcReceive(g)
        \/ RegConcReadUser(g)
        \/ RegConcCreate(g)
        \/ RegConcGenerate(g)
        \/ RegConcReturn(g)

SpecRegisterConcurrent ==
    InitRegisterConcurrent /\ [][NextRegisterConcurrent]_vars

\* The token codec used over time.
InitCodec ==
    /\ methodHandlers = {} /\ authTokenValidator = "jwt"
    /\ ApiIdle
    /\ ReadIdle
    /\ ColIdle
    /\ ExtIdle

NextCodec ==
    \/ CodecEncode
    \/ CodecDecode
    \/ CodecForget
    \/ Tick

SpecCodec == InitCodec /\ [][NextCodec]_vars

\* A route served by the api.Handler of cmd/api/main.go, with or without a
\* token validator.
InitOptionalAuth ==
    /\ methodHandlers \in SUBSET Methods
    /\ authTokenValidator \in {"nil", "jwt"}
    /\ ApiIdle
    /\ ReadIdle
    /\ ColIdle
    /\ ExtIdle

NextOptionalAuth ==
    \/ Receive
    \/ RangeNext
    \/ OptReadAuthHeader
    \/ SkipAuth
    \/ ValidateToken
    \/ Unauthorized
    \/ Dispatch
    \/ MethodNotAllowed
    \/ Return

SpecOptionalAuth == InitOptionalAuth /\ [][NextOptionalAuth]_vars

\* The column route, served by column.Handler with the BearerTokenReader
\* and a token validator.
InitColumn ==
    /\ ColIdle
    /\ ReadIdle
    /\ methodHandlers = {} /\ authTokenValidator = "jwt"
    /\ ApiIdle
    /\ ExtIdle

NextColumn ==
    \/ ColReceive
    \/ ColMethodCheck
    \/ ColAuthenticate
    \/ ColValidateID
    \/ ColSelectColumn
    \/ ColSelectUserBoard
    \/ ColReturn

SpecColumn == InitColumn /\ [][NextColumn]_vars

----------------------------------------------------------------------------
(* Properties *)

Range(f) == {f[i] : i \in DOMAIN f}

\* the token validator has been called for the request being served
Validated == "Validate" \in Range(calls)

BearerPrefix == Bearer \o <<SP>>

\* h is "Bearer " followed by a non-empty string
IsBearerShape(h) ==
    /\ Len(h) > Len(BearerPrefix)
    /\ SubSeq(h, 1, Len(BearerPrefix)) = BearerPrefix

\* C1: a request whose method is a key of the route table and whose token
\* validation yields the empty subject is answered 401 with the header
\* WWW-Authenticate: Bearer, and no MethodHandler is invoked for it.
C1_UnauthenticatedIs401 ==
    (rMethod \in methodHandlers /\ Validated /\ sub = "") =>
        /\ handled = <<>>
        /\ pc \in {"validated", "done"}
        /\ pc = "done" =>
              /\ wStatus = <<<<"api", 401>>>>
              /\ <<"WWW-Authenticate", "Bearer">> \in wHeader

\* C1 witness: a POST without Authorization header to a route holding POST
\* has been answered 401.
C1_Witness ==
    /\ pc = "done" /\ rMethod = "POST" /\ "POST" \in methodHandlers
    /\ rAuth = <<>> /\ Validated /\ sub = ""
    /\ wStatus = <<<<"api", 401>>>>

\* C2: a request whose method is not a key of the route table is answered
\* 405 with an allowed-methods header listing every key of the route table
\* once and nothing else.
C2_NotAllowedListsKeys ==
    (pc = "done" /\ rMethod \notin methodHandlers) =>
        /\ wStatus = <<<<"api", 405>>>>
        /\ \E hd \in wHeader :
              /\ hd[1] = "Access-Control-Allow-Methods"
              /\ Range(hd[2]) = methodHandlers
              /\ Len(hd[2]) = Cardinality(methodHandlers)
        /\ Cardinality(wHeader) = 1

\* C2 witness: DELETE on a route holding GET and POST has been answered 405.
C2_Witness ==
    /\ pc = "done" /\ rMethod = "DELETE" /\ methodHandlers = {"GET", "POST"}
    /\ wStatus = <<<<"api", 405>>>>
    /\ \E hd \in wHeader : Range(hd[2]) = {"GET", "POST"}

\* C3: a MethodHandler is invoked only under the key equal to the request's
\* method, only after the token validator returned a non-empty subject, and
\* with exactly that subject as sub.
C3_HandleOnlyAuthenticated ==
    \A i \in DOMAIN handled :
        /\ handled[i][1] = rMethod
        /\ handled[i][1] \in methodHandlers
        /\ Validated
        /\ Read(rAuth).kind = "returned"
        /\ handled[i][2] = Validate(Read(rAuth).val)
        /\ handled[i][2] # ""

\* C3 witness: a GET with a valid token of bob123 has reached the GET
\* handler with sub = "bob123".
C3_Witness ==
    /\ pc = "done" /\ rMethod = "GET"
    /\ rAuth = BearerPrefix \o <<"a">>
    /\ handled = <<<<"GET", "bob123">>>>

\* the outcomes a finished request shows
Outcome405 == <<"api", 405>> \in Range(wStatus)
Outcome401 == <<"api", 401>> \in Range(wStatus)
Outcomes ==
    (IF Outcome405 THEN 1 ELSE 0) + (IF Outcome401 THEN 1 ELSE 0)
        + Len(handled)

\* C4: every request ends in exactly one of a 405 response, a 401 response
\* or one invocation of one MethodHandler, and then ServeHTTP returns; the
\* dispatcher writes no second status.
C4_ExactlyOneOutcome ==
    /\ pc \in {"done", "panicked"} =>
          /\ pc = "done"
          /\ Outcomes = 1
    /\ Outcomes <= 1
    /\ Cardinality({i \in DOMAIN wStatus : wStatus[i][1] = "api"}) <= 1

\* C5: a request to the column route with a method other than PATCH is
\* answered 405 and nothing more: no collaborator is called and no further
\* status or header is written.
C5_ColumnNonPatchStopsAt405 ==
    (colPc \in {"done", "panicked"} /\ colMethod # "PATCH") =>
        /\ colPc = "done"
        /\ colCalls = <<>>
        /\ colStatus = <<405>>
        /\ Cardinality(colHeader) = 1

C7_ReadNeverFaults ==
    /\ readState # "panicked"
    /\ (authHeader = Bearer /\ readState # "pending") =>
          (readState = "returned" /\ readOut = <<>>)

\* C8: for every input that is not "Bearer " followed by a non-empty
\* token, Read returns "".
C8_ReadEmptyUnlessBearerShape ==
    (readState # "pending" /\ ~IsBearerShape(authHeader)) =>
        (readState = "returned" /\ readOut = <<>>)

\* C9: an input of three or more space-separated parts makes Read return
\* "", as every input that does not split into exactly two parts does.
C9_ReadEmptyOnThreeParts ==
    (readState # "pending" /\ Len(Split(authHeader, SP)) >= 3) =>
        (readState = "returned" /\ readOut = <<>>)

\* C10: for every non-empty token t without a space, Read("Bearer " + t)
\* returns t.
C10_ReadReturnsToken ==
    LET t == SubSeq(authHeader, Len(BearerPrefix) + 1, Len(authHeader))
    IN  (readState # "pending" /\ IsBearerShape(authHeader)
            /\ SP \notin Range(t)) =>
        (readState = "returned" /\ readOut = t)

\* C10 witness: Read("Bearer ab") has returned "ab".
C10_Witness ==
    /\ authHeader = BearerPrefix \o <<"a", "b">>
    /\ readState = "returned"
    /\ readOut = <<"a", "b">>

\* C11: the method lookup comes before the authentication: a request whose
\* method is not a key of the route table is answered 405 whatever its
\* Authorization header, never 401, and neither the header reader nor the
\* token validator is called for it.
C11_LookupBeforeAuth ==
    (pc # "idle" /\ rMethod \notin methodHandlers) =>
        /\ calls = <<>>
        /\ ~Outcome401
        /\ pc \in {"range", "done"}
        /\ pc = "done" => wStatus = <<<<"api", 405>>>>

\* C11 witness: a PUT carrying a valid token of bob123 has been answered
\* 405 by a route holding GET, with no collaborator called.
C11_Witness ==
    /\ pc = "done" /\ rMethod = "PUT" /\ methodHandlers = {"GET"}
    /\ rAuth = BearerPrefix \o <<"a">>
    /\ wStatus = <<<<"api", 405>>>> /\ calls = <<>>

\* C15: on the dispatch path the dispatcher writes no status, no header and
\* no body, before or after Handle: the response holds what the handler
\* wrote and nothing else.
C15_DispatchWritesNothing ==
    handled # <<>> =>
        /\ wHeader = {}
        /\ Len(wStatus) = 1 /\ wStatus[1][1] = "handler"
        /\ "api" \notin Range(wBody)

\* C15 witness: a request has been dispatched and its handler has answered
\* 200 with a body.
C15_Witness ==
    /\ pc = "done" /\ handled # <<>>
    /\ wStatus = <<<<"handler", 200>>>> /\ wBody = <<"handler">>

\* C12: two requests that both fail authentication get identical responses,
\* whatever the reasons of the two failures: status 401, the header
\* WWW-Authenticate: Bearer and no body.
C12_Uniform401 ==
    (pc = "done" /\ Outcome401) =>
        /\ wStatus = <<<<"api", 401>>>>
        /\ wHeader = {<<"WWW-Authenticate", "Bearer">>}
        /\ wBody = <<>>
        /\ prevResp.kind = "401" =>
              /\ wStatus = prevResp.status
              /\ wHeader = prevResp.header
              /\ wBody = prevResp.body

\* C12 witness: a request without Authorization header was answered 401 and
\* the next one, whose token the validator rejected, has been answered 401.
C12_Witness ==
    /\ pc = "done" /\ Outcome401
    /\ prevResp.kind = "401" /\ prevResp.reason = "missing"
    /\ FailureReason(rAuth) = "invalid"

\* C13: two requests with unsupported methods to the same route get the
\* allowed-methods header with the methods in the same order.
C13_Deterministic405Order ==
    (pc = "done" /\ Outcome405 /\ prevResp.kind = "405") =>
        wHeader = prevResp.header

\* What a request with method m and Authorization header h gets from a
\* Handler with the route table t that serves nothing else; the order of the
\* methods in a 405 is left open.
Alone(t, m, h) ==
    IF m \notin t THEN [kind |-> "405", methods |-> t, handled |-> <<>>]
    ELSE IF Read(h).kind = "panicked"
    THEN [kind |-> "panic", methods |-> {}, handled |-> <<>>]
    ELSE IF Validate(Read(h).val) = ""
    THEN [kind |-> "401", methods |-> {}, handled |-> <<>>]
    ELSE [kind |-> "handled", methods |-> {},
          handled |-> <<<<m, Validate(Read(h).val)>>>>]

\* What the request of goroutine g, served among others, has got.
Among(g) ==
    LET r == inflight[g]
        allowed == {hd[2] : hd \in {x \in r.wHeader :
                        x[1] = "Access-Control-Allow-Methods"}}
    IN  IF r.pc = "panicked"
        THEN [kind |-> "panic", methods |-> {}, handled |-> <<>>]
        ELSE IF r.wStatus = <<<<"api", 405>>>> /\ Cardinality(allowed) = 1
                /\ \A a \in allowed : Len(a) = Cardinality(Range(a))
        THEN [kind |-> "405",
              methods |-> UNION {Range(a) : a \in allowed},
              handled |-> <<>>]
        ELSE IF r.wStatus = <<<<"api", 401>>>>
                /\ r.wHeader = {<<"WWW-Authenticate", "Bearer">>}
        THEN [kind |-> "401", methods |-> {}, handled |-> r.handled]
        ELSE IF r.wStatus = <<>> /\ r.wHeader = {}
        THEN [kind |-> "handled", methods |-> {}, handled |-> r.handled]
        ELSE [kind |-> "other", methods |-> {}, handled |-> r.handled]

\* C14: every request served concurrently with others through one Handler
\* ends as it would have ended served alone, and no step of any request
\* changes the route table.
C14_ConcurrentIndependence ==
    [][/\ methodHandlers' = methodHandlers
       /\ \A g \in Goroutines :
             inflight'[g].pc \in {"done", "panicked"} =>
                 Among(g)' = Alone(methodHandlers, inflight'[g].rMethod,
                                   inflight'[g].rAuth)]_vars

\* C14 witness: two requests in flight at once have both been answered,
\* one with 405 and one by its handler.
C14_Witness ==
    /\ inflight[1].pc = "done" /\ inflight[2].pc = "done"
    /\ inflight[1].wStatus = <<<<"api", 405>>>>
    /\ inflight[2].handled # <<>>

\* C16: the 405 of the column route carries an allowed-methods header
\* that names PATCH, the one method the route accepts.
C16_Column405NamesPatch ==
    405 \in Range(colStatus) =>
        \E hd \in colHeader :
            /\ hd[1] = "Access-Control-Allow-Methods"
            /\ "PATCH" \in Range(hd[2])

\* C17: a 405 of a route handler carries an allowed-methods header naming
\* the methods of the route; for the register route, POST.
C17_Every405NamesMethods ==
    405 \in Range(regStatus) =>
        \E hd \in regHeader :
            /\ hd[1] = "Access-Control-Allow-Methods"
            /\ Range(hd[2]) = {"POST"}

C19_ExpiryBoundary ==
    /\ decoded.res.ok =>
          /\ Len(decoded.tok) = 3
          /\ decoded.at < decoded.tok[2].exp
          /\ decoded.tok[3] = Sign(ServerKey, decoded.kind, decoded.tok[2])
    /\ (decoded.tok # <<>> /\ ~decoded.res.ok) => decoded.res.claims = <<>>
    /\ \A i \in issued :
          (decoded.tok = i.tok /\ decoded.at >= i.exp) =>
              (~decoded.res.ok /\ decoded.res.claims = <<>>)

\* C19 witness: an issued string has been decoded, as its own kind, at the
\* very instant of its expiry, and the decoding failed.
C19_Witness ==
    \E i \in issued :
        /\ decoded.tok = i.tok /\ decoded.kind = i.kind
        /\ i.exp > 0 /\ decoded.at = i.exp
        /\ ~decoded.res.ok /\ decoded.res.why = "expired"

\* the calls of encodeAuth of the request that returned a token
EncodedOK ==
    {c \in Range(logCalls) : c[1] = "encodeAuth" /\ c[4] # <<>>}

\* C20: when encodeAuth has returned a token, Handle has set one cookie and
\* no more: its name is token.AuthName, its value that token, its Expires
\* the expiry given to encodeAuth, Secure is set and SameSite is None.
C20_LoginCookie ==
    (logPc = "done" /\ EncodedOK # {}) =>
        /\ Len(logCookies) = 1
        /\ \A c \in EncodedOK :
              /\ logCookies[1].Name = AuthName
              /\ logCookies[1].Value = c[4]
              /\ logCookies[1].Expires = c[2]
              /\ logCookies[1].Secure
              /\ logCookies[1].SameSite = "None"

\* C20 witness: a login at a later hour has succeeded and its cookie
\* expires AuthDurationDefault after that hour.
C20_Witness ==
    /\ logPc = "done" /\ EncodedOK # {}
    /\ now > 0
    /\ Len(logCookies) = 1
    /\ logCookies[1].Expires = now + AuthDurationDefault
    /\ logStatus = <<>>

\* the calls of the collaborator fn in the register request, in order
RegCallsOf(fn) ==
    SelectSeq(regCalls, LAMBDA c : c[1] = fn)

\* the token generator of the register request was called and failed
RegGenerateErr ==
    \E i \in DOMAIN regCalls :
        regCalls[i][1] = "tokenGenerator" /\ regCalls[i][5] = "err"

\* C21: when the call that makes the auth token fails, the response is a
\* 500, no cookie is set and the call is not made again; here for the
\* register handler and its token generator.
C21_TokenFaultIs500 ==
    (regPc = "done" /\ RegGenerateErr) =>
        /\ regStatus = <<500>>
        /\ regCookies = <<>>
        /\ Len(RegCallsOf("tokenGenerator")) = 1

\* the collaborators of the register handler in the order of ServeHTTP
RegOrder ==
    <<"validator", "userReader", "hasher", "userCreator", "tokenGenerator">>

\* the call c of a collaborator of the register handler let ServeHTTP go on
RegSucceeded(c) ==
    c[Len(c)] = IF c[1] = "userReader" THEN "ErrNoRows" ELSE "nil"

\* C22: the register handler calls validator, user reader, hasher, user
\* creator and token generator in that order, each at most once and only
\* after every earlier one succeeded; a request that is not a POST gets
\* the 405 and none of them is called.
C22_RegisterStepOrder ==
    /\ Len(regCalls) <= Len(RegOrder)
    /\ \A i \in DOMAIN regCalls :
          /\ regCalls[i][1] = RegOrder[i]
          /\ i < Len(regCalls) => RegSucceeded(regCalls[i])
    /\ (regPc \notin {"idle", "method"} /\ regMethod # "POST") =>
          /\ regPc = "done"
          /\ regStatus = <<405>>
          /\ regCalls = <<>>

\* C22 witness: a POST went through all five collaborators.
C22_Witness ==
    /\ regPc = "done" /\ regMethod = "POST"
    /\ Len(regCalls) = 5
    /\ regCalls[5][1] = "tokenGenerator"

\* the user reader of the register request returned the error err
RegReaderReturned(err) ==
    \E i \in DOMAIN regCalls :
        regCalls[i][1] = "userReader" /\ regCalls[i][3] = err

\* C23: when the user reader finds the username the register handler
\* answers 400 with "Username is already taken."; when it fails otherwise
\* than with sql.ErrNoRows the answer is 500; in both cases hasher, creator
\* and generator are not called and no cookie is set.
C23_RegisterLookupOutcomes ==
    /\ (regPc = "done" /\ RegReaderReturned("nil")) =>
          /\ regStatus = <<400>>
          /\ regResBody = <<"Username is already taken.">>
    /\ (regPc = "done" /\ RegReaderReturned("other")) =>
          regStatus = <<500>>
    /\ (RegReaderReturned("nil") \/ RegReaderReturned("other")) =>
          /\ regPc = "done"
          /\ RegCallsOf("hasher") = <<>>
          /\ RegCallsOf("userCreator") = <<>>
          /\ RegCallsOf("tokenGenerator") = <<>>
          /\ regCookies = <<>>

\* C23 witness: a registration for a username of the user table has been
\* answered.
C23_Witness ==
    /\ regPc = "done" /\ RegReaderReturned("nil")
    /\ regReqBody.Username \in users
    /\ regStatus = <<400>>

\* C24: when everything before it succeeded and the token generator
\* fails, the register handler answers 401 with the Auth message, sets no
\* cookie, and the user it created stays in the user table.
C24_RegisterGenerateFailure ==
    (regPc = "done" /\ RegGenerateErr) =>
        /\ regStatus = <<401>>
        /\ regResBody = <<errAuth>>
        /\ regCookies = <<>>
        /\ Len(RegCallsOf("userCreator")) = 1
        /\ regReqBody.Username \in users

\* C24 witness: the token generator has failed after the user was created.
C24_Witness ==
    /\ regPc = "done" /\ RegGenerateErr
    /\ Len(regCalls) = 5 /\ RegSucceeded(regCalls[4])
    /\ regReqBody.Username \in users

\* the token generator of the register request returned a token
RegGenerateOK ==
    \E i \in DOMAIN regCalls :
        regCalls[i][1] = "tokenGenerator" /\ regCalls[i][5] = "nil"

\* C25: when every step succeeds the register handler answers 200 with
\* one cookie "authToken" whose value is the string the token generator
\* returned and whose Expires is the expiry given to Generate; without a
\* 200 there is no cookie.
C25_RegisterSuccess ==
    /\ (regPc = "done" /\ RegGenerateOK) =>
          /\ regStatus = <<200>>
          /\ Len(regCookies) = 1
          /\ regCookies[1].Name = "authToken"
          /\ regCookies[1].Value = regCalls[5][4]
          /\ regCookies[1].Expires = regCalls[5][3]
    /\ (regPc = "done" /\ regStatus # <<200>>) => regCookies = <<>>
    /\ regPc # "done" => regCookies = <<>>

\* C25 witness: a registration at a later hour has succeeded.
C25_Witness ==
    /\ regPc = "done" /\ RegGenerateOK
    /\ now > 0
    /\ regStatus = <<200>>
    /\ regCookies[1].Expires = now + RegisterTokenHours

\* the collaborator fn of the login request returned res
LogReturned(fn, res) ==
    \E i \in DOMAIN logCalls :
        logCalls[i][1] = fn /\ logCalls[i][Len(logCalls[i])] = res

\* the collaborators of the login request called so far, by name
LogCalled == [i \in DOMAIN logCalls |-> logCalls[i][1]]

\* C26: the login handler answers a body that does not decode with 500, a
\* request the validator rejects with 400, db.ErrNoItem with 400, another
\* error of the user getter with 500 and a log entry, a password mismatch
\* with 400, another error of the comparator with 500 and a log entry;
\* after each it returns without calling a later collaborator.
C26_LoginErrorMapping ==
    /\ (logPc = "done" /\ ~logReqBody.decodes) =>
          /\ logStatus = <<500>> /\ LogCalled = <<>>
    /\ LogReturned("validator", FALSE) =>
          /\ logPc = "done" /\ logStatus = <<400>>
          /\ LogCalled = <<"validator">>
    /\ LogReturned("userGetter", "ErrNoItem") =>
          /\ logPc = "done" /\ logStatus = <<400>>
          /\ LogCalled = <<"validator", "userGetter">>
    /\ LogReturned("userGetter", "other") =>
          /\ logPc = "done" /\ logStatus = <<500>> /\ logLogged = 1
          /\ LogCalled = <<"validator", "userGetter">>
    /\ LogReturned("pwdComparator", "ErrMismatched") =>
          /\ logPc = "done" /\ logStatus = <<400>>
          /\ LogCalled = <<"validator", "userGetter", "pwdComparator">>
    /\ LogReturned("pwdComparator", "other") =>
          /\ logPc = "done" /\ logStatus = <<500>> /\ logLogged = 1
          /\ LogCalled = <<"validator", "userGetter", "pwdComparator">>

\* C26 witness: a login with the wrong password has been answered.
C26_Witness ==
    /\ logPc = "done"
    /\ LogReturned("pwdComparator", "ErrMismatched")
    /\ logReqBody.Password = "notmypwd"
    /\ logStatus = <<400>>

\* C27: the login handler sets the auth cookie only in a request whose
\* body decoded, that the validator accepted, whose user the getter
\* returned without error, whose password the comparator accepted and
\* whose token encodeAuth returned; and the claims encoded are the
\* Username, IsAdmin and TeamID of that user.
C27_LoginCookieOnlyAfterAllChecks ==
    /\ logCookies # <<>> =>
          /\ logReqBody.decodes
          /\ LogCalled = <<"validator", "userGetter", "pwdComparator",
                           "encodeAuth">>
          /\ logCalls[1][3] = TRUE
          /\ logCalls[2][3] = "nil"
          /\ logCalls[3][4] = "nil"
          /\ logCalls[4][4] # <<>>
    /\ \A i \in DOMAIN logCalls :
          logCalls[i][1] = "encodeAuth" =>
              /\ logReqBody.Username \in DOMAIN UserTable
              /\ logCalls[i][3] =
                    [Username |-> UserTable[logReqBody.Username].Username,
                     IsAdmin  |-> UserTable[logReqBody.Username].IsAdmin,
                     TeamID   |-> UserTable[logReqBody.Username].TeamID]

\* C27 witness: the login of an administrator has set the cookie.
C27_Witness ==
    /\ logPc = "done" /\ logCookies # <<>>
    /\ logReqBody.Username = "bob123"
    /\ logCalls[4][3].IsAdmin

\* C28: the column handler asks the user-board selector about the token
\* subject and the ID of the board of the selected column, and answers 401
\* when the selector returns sql.ErrNoRows.
C28_AccessCheckUsesBoardID ==
    \A i \in DOMAIN colCalls :
        colCalls[i][1] = "userBoardSelector" =>
            /\ colCalls[i][2] = colSub
            /\ colCalls[i][3] = Itoa(column.BoardID)
            /\ colCalls[i][4] = "sql.ErrNoRows" => 401 \in Range(colStatus)

\* the collaborator fn of the column request returned without error
ColReturnedNil(fn) ==
    \E i \in DOMAIN colCalls :
        colCalls[i][1] = fn /\ colCalls[i][Len(colCalls[i])] = "nil"

\* C29: a PATCH request to the column route is answered 200 only when the
\* token subject is not empty, the id validator accepted the id, the
\* column selector returned a column and the user-board selector returned
\* without any error.
C29_Column200OnlyAfterAllChecks ==
    (colMethod = "PATCH" /\ 200 \in Range(colStatus)) =>
        /\ colSub # ""
        /\ ColReturnedNil("idValidator")
        /\ ColReturnedNil("columnSelector")
        /\ ColReturnedNil("userBoardSelector")

\* the request of goroutine g called userCreator.Create
RegConcCreated(g) ==
    \E i \in DOMAIN regInflight[g].calls :
        regInflight[g].calls[i][1] = "userCreator"

\* C30: of two register requests in flight with the same username at most
\* one calls userCreator.Create and at most one gets the 200 with the
\* authToken cookie.
C30_RegisterAtMostOneCreate ==
    \A g, h \in Goroutines :
        (/\ g # h
         /\ regInflight[g].pc # "idle" /\ regInflight[h].pc # "idle"
         /\ regInflight[g].reqBody.Username
                = regInflight[h].reqBody.Username) =>
            /\ ~(RegConcCreated(g) /\ RegConcCreated(h))
            /\ ~(/\ regInflight[g].status = <<200>>
                 /\ regInflight[g].cookies # <<>>
                 /\ regInflight[h].status = <<200>>
                 /\ regInflight[h].cookies # <<>>)

====
